---- MODULE Spec2Model ----
(***************************************************************************)
(* Model of the Telegram -> WhatsApp router: MessageRouter (router.py),    *)
(* its album buffer with debounce timers, the per-unit processing          *)
(* pipelines, flush_pending() and the shutdown sequence of main.py.        *)
(*                                                                         *)
(* The program runs on one asyncio event loop.  A step of the model is    *)
(* the code a task runs between two suspension points (awaits that reach  *)
(* a collaborator), so every action below is atomic in the program too.   *)
(***************************************************************************)
EXTENDS Integers, Sequences, FiniteSets, TLC

\* ---------------------------------------------------------------- bounds
MaxMsgs == 3          \* messages handed to forward() in a behaviour of Spec
MaxPipeMsgs == 2      \* messages handed to forward() in a behaviour of SpecPipeline
MaxAlbumMsgs == 3     \* messages handed to forward() in a behaviour of SpecAlbum
NumKeys == 2          \* distinct grouped_id values
MaxFlushCalls == 1    \* invocations of flush_pending() in one behaviour
MaxRules == 3         \* rules in config.filters
MaxTextLen == 1       \* characters of a text handed to ContentFilter.evaluate
MaxEvals == 1         \* invocations of ContentFilter.evaluate in one behaviour
MaxSplitLen == 6      \* characters of a text handed to _split_text
MaxLimit == 3         \* limit handed to _split_text
MAX_TEXT == 3         \* sink limit of a text body, scaled down from 4096
MAX_CAPTION == 2      \* sink limit of a caption, scaled down from 1024
MaxAttrs == 3         \* attributes of a document handed to _detect_media
MaxIntakeMsgs == 3    \* messages handed to forward() in a behaviour of SpecIntake
MaxFlushMsgs == 3     \* messages handed to forward() in a behaviour of SpecFlush
MaxLiveMsgs == 3      \* messages handed to forward() in a behaviour of SpecLive
MaxReflush == 2       \* invocations of flush_pending() in a behaviour of SpecFlush

Keys == 1..NumKeys
Gids == {0} \cup Keys                       \* 0: no grouped_id (falsy)
Channels == {"A", "B"}
Medias == {"none", "ok", "unsupported"}     \* _detect_media + WA_SUPPORTED_MIMES
RuleNames == {"ads", "spam"}                \* FilterRule.name
Whitespace == {" ", "\n"}                   \* characters str.strip() removes
Chars == Whitespace \cup {"a"}

VARIABLES
  filter,     \* MessageRouter.filter is configured (not None)
  msgs,       \* messages accepted by forward(), in arrival order; id = index
  pending,    \* MessageRouter._pending_albums, in dict (insertion) order
  timers,     \* scheduled TimerHandles not yet fired or cancelled (by id)
  fired,      \* TimerHandles whose callback has run (history)
  ready,      \* _flush_album tasks created by ensure_future, not yet started
  units,      \* units of work in order of creation, each with the
              \* collaborator calls it has made so far, in order
  fp,         \* activation record of flush_pending()
  closed,     \* WhatsAppSender.close() has been awaited (main.py finally)
  rules,      \* ContentFilter.config.filters: the rule names in configured order
  evals,      \* activations of ContentFilter.evaluate, in order of invocation
  split,      \* activation record of _split_text(text, limit)
  sender,     \* activation record of WhatsAppSender.send_text / send_media
              \* with the payloads it has posted to the sink
  detect,     \* the message handed to _detect_media and what it returned
  sink,       \* the calls the WhatsApp sink has received from the units, in
              \* order of arrival
  seen        \* what the listener's handler saw when it called forward(): for
              \* each message it handed over, whether a unit was suspended on
              \* network I/O (recorded by the handler of SpecIntake)

vars == <<filter, msgs, pending, timers, fired, ready, units, fp, closed, rules, evals,
          split, sender, detect, sink, seen>>

\* the state of the router (MessageRouter and the event loop)
routerVars == <<filter, msgs, pending, timers, fired, ready, units, fp, closed, sink, seen>>

\* ------------------------------------------------- dict _pending_albums
Has(d, k) == \E i \in 1..Len(d) : d[i].gid = k
Idx(d, k) == CHOOSE i \in 1..Len(d) : d[i].gid = k
Get(d, k) == d[Idx(d, k)]
\* mutant of Pop: the completion empties the whole dict
PopClear(d, k) == SelectSeq(d, LAMBDA a : FALSE)
Pop(d, k) == SelectSeq(d, LAMBDA a : a.gid # k)
DictKeys(d) == [i \in 1..Len(d) |-> d[i].gid]

\* _PendingAlbum(channel_name, messages, timer)
PendingAlbum(g, ch, ms, t) ==
  [gid |-> g, channel_name |-> ch, messages |-> ms, timer |-> t]

\* ------------------------------------------------------------- helpers
Min(S) == CHOOSE x \in S : \A y \in S : x <= y
Max(S) == CHOOSE x \in S : \A y \in S : x >= y
Range(s) == {s[i] : i \in 1..Len(s)}

\* the last message accepted so far with grouped_id g (0 if none)
Pred(g) ==
  LET S == {i \in 1..Len(msgs) : msgs[i].gid = g}
  IN IF S = {} THEN 0 ELSE Max(S)

\* state of the timer that message p scheduled, as seen by the event loop
TimerState(p) ==
  IF p = 0 THEN "none"
  ELSE IF p \in timers THEN "live"
  ELSE IF p \in fired THEN "fired"
  ELSE "cancelled"

\* MessageRouter.__init__: nothing pending, nothing scheduled
InitRouter ==
  /\ msgs = <<>>
  /\ pending = <<>>
  /\ timers = {}
  /\ fired = {}
  /\ ready = <<>>
  /\ units = <<>>
  /\ fp = [status |-> "idle", snap |-> <<>>, unit |-> 0, atCall |-> {}, n |-> 0]
  /\ closed = FALSE
  /\ sink = <<>>
  /\ seen = <<>>

\* --------------------------------------------------- units of work
\* A unit is one activation of _forward_single or _flush_album.  pc names
\* the collaborator call the activation is suspended on: get_chat, evaluate,
\* download, upload, send_media, send_text; or done (returned), raised.
\* what the awaited collaborator can answer
Outcomes(pc) ==
  CASE pc = "get_chat" -> {"ok"}
    [] pc = "evaluate" -> {"forward", "skip"}
    [] pc = "download" -> {"bytes", "none"}
    [] pc \in {"upload", "send_media", "send_text"} -> {"ok", "raise"}
    [] OTHER -> {}

Unit(k, g, ch, ms, by, t) ==
  [kind |-> k, gid |-> g, channel |-> ch, msgs |-> ms, by |-> by, timer |-> t,
   pc |-> "get_chat", idx |-> 0, is_first |-> TRUE, verdict |-> "none",
   calls |-> <<>>, fetched |-> <<>>]

Call(i, op, m, w) == [op |-> op, msg |-> m, what |-> w]

\* mutant of AlbumText: only the first message of the album is asked for text
AlbumTextOfFirst(ms) == IF msgs[ms[1]].text THEN ms[1] ELSE 0

\* album_text = next((m.text for m in messages if m.text), None):
\* the id of the message that supplies it, 0 for None
AlbumText(ms) ==
  LET S == {j \in 1..Len(ms) : msgs[ms[j]].text}
  IN IF S = {} THEN 0 ELSE ms[Min(S)]

Goto(u, pc, cs) == [u EXCEPT !.pc = pc, !.calls = @ \o cs]

\* file_bytes = await msg.download_media(bytes) answered res for message id
Fetched(u, id, res) == [u EXCEPT !.fetched = Append(@, [msg |-> id, res |-> res])]

\* mutant of FilterApplies: a configured filter is asked about every unit
FilterAppliesAlways(hasText) == filter

\* if message.text and self.filter / if album_text and self.filter
FilterApplies(hasText) == hasText /\ filter

\* mutant of Deliverable: the mime type is not checked
DeliverableAny(id) == msgs[id].media # "none"

\* an album member that passes _detect_media and WA_SUPPORTED_MIMES
Deliverable(id) == msgs[id].media = "ok"

\* mutant of CaptionArg: every item of the album carries the caption
CaptionArgAlways(u) == "caption"

\* caption=caption if is_first else None
CaptionArg(u) == IF u.is_first THEN "caption" ELSE "nocaption"

\* mutant of TextFallback: the text send does not look at album_text
TextFallbackAlways(u, txt) == u.is_first

\* if is_first and album_text
TextFallback(u, txt) == u.is_first /\ txt # 0

\* mutant of SingleNoBytes: the text send does not look at message.text
SingleNoBytesAlways(i, u) ==
  LET id == u.msgs[1]
  IN Goto(Fetched(u, id, "none"), "send_text", <<Call(i, "send_text", id, "text")>>)

\* _forward_single after download_media answered None
SingleNoBytes(i, u) ==
  LET id == u.msgs[1]
  IN IF msgs[id].text
     THEN Goto(Fetched(u, id, "none"), "send_text", <<Call(i, "send_text", id, "text")>>)
     ELSE Goto(Fetched(u, id, "none"), "done", <<>>)

\* mutant of SingleAfterFilter: the mime type is not checked
SingleAfterFilterNoMimeCheck(i, u) ==
  LET id == u.msgs[1]
      m == msgs[id]
  IN IF m.media = "none"
     THEN IF ~m.text THEN Goto(u, "done", <<>>)
          ELSE Goto(u, "send_text", <<Call(i, "send_text", id, "text")>>)
     ELSE Goto(u, "download", <<Call(i, "download_media", id, "")>>)

\* _forward_single from _detect_media to the first await after it
SingleAfterFilter(i, u) ==
  LET id == u.msgs[1]
      m == msgs[id]
  IN IF m.media = "none"
     THEN IF ~m.text THEN Goto(u, "done", <<>>)
          ELSE Goto(u, "send_text", <<Call(i, "send_text", id, "text")>>)
     ELSE IF m.media = "unsupported"
     THEN Goto(u, "send_text", <<Call(i, "send_text", id, "unsupported")>>)
     ELSE Goto(u, "download", <<Call(i, "download_media", id, "")>>)

\* mutant of ForwardSingleStep: the skip verdict is recorded but not obeyed
ForwardSingleStepIgnoreSkip(i, u, res) ==
  LET id == u.msgs[1]
      m == msgs[id]
  IN CASE u.pc = "get_chat" ->
            IF FilterApplies(m.text)
            THEN Goto(u, "evaluate", <<Call(i, "evaluate", id, "")>>)
            ELSE SingleAfterFilter(i, u)
       [] u.pc = "evaluate" -> SingleAfterFilter(i, [u EXCEPT !.verdict = res])
       [] u.pc = "download" ->
            IF res = "none" THEN SingleNoBytes(i, u)
            ELSE Goto(Fetched(u, id, res), "upload", <<Call(i, "upload_media", id, "")>>)
       [] u.pc = "upload" ->
            IF res = "raise" THEN Goto(u, "raised", <<>>)
            ELSE Goto(u, "send_media", <<Call(i, "send_media", id, "caption")>>)
       [] u.pc = "send_media" ->
            IF res = "raise" THEN Goto(u, "raised", <<>>) ELSE Goto(u, "done", <<>>)
       [] u.pc = "send_text" ->
            IF res = "raise" THEN Goto(u, "raised", <<>>) ELSE Goto(u, "done", <<>>)

\* mutant of ForwardSingleStep: no return after a notification, the message
\* is processed on as if it had none
ForwardSingleStepNoReturn(i, u, res) ==
  LET id == u.msgs[1]
      m == msgs[id]
  IN CASE u.pc = "get_chat" ->
            IF FilterApplies(m.text)
            THEN Goto(u, "evaluate", <<Call(i, "evaluate", id, "")>>)
            ELSE SingleAfterFilter(i, u)
       [] u.pc = "evaluate" ->
            IF res = "skip"
            THEN Goto([u EXCEPT !.verdict = res], "send_text",
                      <<Call(i, "send_text", id, "skip")>>)
            ELSE SingleAfterFilter(i, [u EXCEPT !.verdict = res])
       [] u.pc = "download" ->
            IF res = "none" THEN SingleNoBytes(i, u)
            ELSE Goto(Fetched(u, id, res), "upload", <<Call(i, "upload_media", id, "")>>)
       [] u.pc = "upload" ->
            IF res = "raise" THEN Goto(u, "raised", <<>>)
            ELSE Goto(u, "send_media", <<Call(i, "send_media", id, "caption")>>)
       [] u.pc = "send_media" ->
            IF res = "raise" THEN Goto(u, "raised", <<>>) ELSE Goto(u, "done", <<>>)
       [] u.pc = "send_text" ->
            IF res = "raise" THEN Goto(u, "raised", <<>>)
            ELSE IF u.calls[Len(u.calls)].what = "unsupported"
            THEN Goto(u, "download", <<Call(i, "download_media", id, "")>>)
            ELSE Goto(u, "done", <<>>)

\* _forward_single resumed with the answer res of the call it awaited
ForwardSingleStep(i, u, res) ==
  LET id == u.msgs[1]
      m == msgs[id]
  IN CASE u.pc = "get_chat" ->
            IF FilterApplies(m.text)
            THEN Goto(u, "evaluate", <<Call(i, "evaluate", id, "")>>)
            ELSE SingleAfterFilter(i, u)
       [] u.pc = "evaluate" ->
            IF res = "skip"
            THEN Goto([u EXCEPT !.verdict = res], "send_text",
                      <<Call(i, "send_text", id, "skip")>>)
            ELSE SingleAfterFilter(i, [u EXCEPT !.verdict = res])
       [] u.pc = "download" ->
            IF res = "none" THEN SingleNoBytes(i, u)
            ELSE Goto(Fetched(u, id, res), "upload", <<Call(i, "upload_media", id, "")>>)
       [] u.pc = "upload" ->
            IF res = "raise" THEN Goto(u, "raised", <<>>)
            ELSE Goto(u, "send_media", <<Call(i, "send_media", id, "caption")>>)
       [] u.pc = "send_media" ->
            IF res = "raise" THEN Goto(u, "raised", <<>>) ELSE Goto(u, "done", <<>>)
       [] u.pc = "send_text" ->
            IF res = "raise" THEN Goto(u, "raised", <<>>) ELSE Goto(u, "done", <<>>)

\* the member loop of _flush_album from position from, up to the next await,
\* and the text fallback after the loop
AlbumLoop(i, u, from) ==
  LET S == {j \in from..Len(u.msgs) : Deliverable(u.msgs[j])}
      txt == AlbumText(u.msgs)
  IN IF S # {}
     THEN Goto([u EXCEPT !.idx = Min(S)], "download",
               <<Call(i, "download_media", u.msgs[Min(S)], "")>>)
     ELSE IF TextFallback(u, txt)
     THEN Goto([u EXCEPT !.idx = Len(u.msgs) + 1], "send_text",
               <<Call(i, "send_text", txt, "text")>>)
     ELSE Goto([u EXCEPT !.idx = Len(u.msgs) + 1], "done", <<>>)

\* mutant of FlushAlbumStep: the skip verdict is recorded but not obeyed
FlushAlbumStepIgnoreSkip(i, u, res) ==
  LET txt == AlbumText(u.msgs)
  IN CASE u.pc = "get_chat" ->
            IF FilterApplies(txt # 0)
            THEN Goto(u, "evaluate", <<Call(i, "evaluate", txt, "")>>)
            ELSE AlbumLoop(i, u, 1)
       [] u.pc = "evaluate" ->
            AlbumLoop(i, [u EXCEPT !.verdict = res], 1)
       [] u.pc = "download" ->
            IF res = "none" THEN AlbumLoop(i, Fetched(u, u.msgs[u.idx], res), u.idx + 1)
            ELSE Goto(Fetched(u, u.msgs[u.idx], res), "upload",
                      <<Call(i, "upload_media", u.msgs[u.idx], "")>>)
       [] u.pc = "upload" ->
            IF res = "raise" THEN Goto(u, "raised", <<>>)
            ELSE Goto(u, "send_media",
                      <<Call(i, "send_media", u.msgs[u.idx], CaptionArg(u))>>)
       [] u.pc = "send_media" ->
            IF res = "raise" THEN Goto(u, "raised", <<>>)
            ELSE AlbumLoop(i, [u EXCEPT !.is_first = FALSE], u.idx + 1)
       [] u.pc = "send_text" ->
            IF res = "raise" THEN Goto(u, "raised", <<>>) ELSE Goto(u, "done", <<>>)

\* _flush_album resumed with the answer res of the call it awaited
FlushAlbumStep(i, u, res) ==
  LET txt == AlbumText(u.msgs)
  IN CASE u.pc = "get_chat" ->
            IF FilterApplies(txt # 0)
            THEN Goto(u, "evaluate", <<Call(i, "evaluate", txt, "")>>)
            ELSE AlbumLoop(i, u, 1)
       [] u.pc = "evaluate" ->
            IF res = "skip"
            THEN Goto([u EXCEPT !.verdict = res], "send_text",
                      <<Call(i, "send_text", txt, "skip")>>)
            ELSE AlbumLoop(i, [u EXCEPT !.verdict = res], 1)
       [] u.pc = "download" ->
            IF res = "none" THEN AlbumLoop(i, Fetched(u, u.msgs[u.idx], res), u.idx + 1)
            ELSE Goto(Fetched(u, u.msgs[u.idx], res), "upload",
                      <<Call(i, "upload_media", u.msgs[u.idx], "")>>)
       [] u.pc = "upload" ->
            IF res = "raise" THEN Goto(u, "raised", <<>>)
            ELSE Goto(u, "send_media",
                      <<Call(i, "send_media", u.msgs[u.idx], CaptionArg(u))>>)
       [] u.pc = "send_media" ->
            IF res = "raise" THEN Goto(u, "raised", <<>>)
            ELSE AlbumLoop(i, [u EXCEPT !.is_first = FALSE], u.idx + 1)
       [] u.pc = "send_text" ->
            IF res = "raise" THEN Goto(u, "raised", <<>>) ELSE Goto(u, "done", <<>>)

\* ------------------------------------------------------------- forward
\* the awaits of _forward_single and _flush_album that wait for network I/O:
\* download_media, upload_media, send_media, send_text
IOAwaits == {"download", "upload", "send_media", "send_text"}

\* some unit is suspended on network I/O
Busy == \E u \in 1..Len(units) : units[u].pc \in IOAwaits

\* mutant of forward: the grouped_id is ignored, every message is processed
\* at once
forwardUngrouped(ch, g, tx, md) ==
  LET id == Len(msgs) + 1
      m == [gid |-> g, text |-> tx, media |-> md, predTimer |-> "none"]
  IN /\ ~closed
     /\ msgs' = Append(msgs, m)
     /\ units' = Append(units, Unit("single", 0, ch, <<id>>, "handler", 0))
     /\ UNCHANGED <<sink, detect, sender, split, rules, evals, filter, pending, timers, fired, ready, fp, closed>>

\* mutant of forward: intake waits until no unit is suspended on network I/O
forwardSerial(ch, g, tx, md) ==
  LET id == Len(msgs) + 1
      m == [gid |-> g, text |-> tx, media |-> md,
            predTimer |-> IF g = 0 THEN "none" ELSE TimerState(Pred(g))]
  IN /\ ~closed
     /\ ~Busy
     /\ msgs' = Append(msgs, m)
     /\ IF g = 0
        THEN /\ units' = Append(units, Unit("single", 0, ch, <<id>>, "handler", 0))
             /\ UNCHANGED <<pending, timers>>
        ELSE /\ IF Has(pending, g)
                THEN LET k == Idx(pending, g)
                     IN /\ pending' = [pending EXCEPT ![k].messages = Append(@, id),
                                                      ![k].timer = id]
                        /\ timers' = (timers \ {pending[k].timer}) \cup {id}
                ELSE /\ pending' = Append(pending, PendingAlbum(g, ch, <<id>>, id))
                     /\ timers' = timers \cup {id}
             /\ UNCHANGED units
     /\ UNCHANGED <<sink, detect, sender, split, rules, evals, filter, fired, ready, fp, closed>>

\* mutant of forward: a message added to a pending group cancels the group's
\* timer and schedules no new one
forwardNoReschedule(ch, g, tx, md) ==
  LET id == Len(msgs) + 1
      m == [gid |-> g, text |-> tx, media |-> md,
            predTimer |-> IF g = 0 THEN "none" ELSE TimerState(Pred(g))]
  IN /\ ~closed
     /\ msgs' = Append(msgs, m)
     /\ IF g = 0
        THEN /\ units' = Append(units, Unit("single", 0, ch, <<id>>, "handler", 0))
             /\ UNCHANGED <<pending, timers>>
        ELSE /\ IF Has(pending, g)
                THEN LET k == Idx(pending, g)
                     IN /\ pending' = [pending EXCEPT ![k].messages = Append(@, id)]
                        /\ timers' = timers \ {pending[k].timer}
                ELSE /\ pending' = Append(pending, PendingAlbum(g, ch, <<id>>, id))
                     /\ timers' = timers \cup {id}
             /\ UNCHANGED units
     /\ UNCHANGED <<sink, detect, sender, split, rules, evals, filter, fired, ready, fp, closed>>

\* MessageRouter.forward(channel_name, message)
forward(ch, g, tx, md) ==
  LET id == Len(msgs) + 1
      m == [gid |-> g, text |-> tx, media |-> md,
            predTimer |-> IF g = 0 THEN "none" ELSE TimerState(Pred(g))]
  IN /\ ~closed
     /\ msgs' = Append(msgs, m)
     /\ IF g = 0
        THEN /\ units' = Append(units, Unit("single", 0, ch, <<id>>, "handler", 0))
             /\ UNCHANGED <<pending, timers>>
        ELSE /\ IF Has(pending, g)
                THEN LET k == Idx(pending, g)
                     IN /\ pending' = [pending EXCEPT ![k].messages = Append(@, id),
                                                      ![k].timer = id]
                        /\ timers' = (timers \ {pending[k].timer}) \cup {id}
                ELSE /\ pending' = Append(pending, PendingAlbum(g, ch, <<id>>, id))
                     /\ timers' = timers \cup {id}
             /\ UNCHANGED units
     /\ UNCHANGED <<sink, detect, sender, split, rules, evals, filter, fired, ready, fp, closed>>

\* ------------------------------------------------------ debounce timers
\* loop.call_later(self._album_timeout, ...): every timer has the same delay,
\* so the event loop runs the scheduled handles in the order they were made.
\* The callback only creates the _flush_album task (asyncio.ensure_future);
\* the task's first step runs in a later iteration of the loop.
FireTimer ==
  /\ ~closed
  /\ timers # {}
  /\ LET t == Min(timers)
     IN /\ timers' = timers \ {t}
        /\ fired' = fired \cup {t}
        /\ ready' = Append(ready, t)
  /\ UNCHANGED <<seen, sink, detect, sender, split, rules, evals, filter, msgs, pending, units, fp, closed>>

\* mutant of FlushAlbumEnter: the album is read with get(), not popped
FlushAlbumEnterGet(g, by, t, us) ==
  IF Has(pending, g)
  THEN LET album == Get(pending, g)
       IN /\ pending' = pending
          /\ units' = Append(us, Unit("album", g, album.channel_name,
                                      album.messages, by, t))
  ELSE /\ pending' = pending
       /\ units' = us

\* _flush_album(grouped_id) from its entry to its first await:
\* album = self._pending_albums.pop(grouped_id, None)
FlushAlbumEnter(g, by, t, us) ==
  IF Has(pending, g)
  THEN LET album == Get(pending, g)
       IN /\ pending' = Pop(pending, g)
          /\ units' = Append(us, Unit("album", g, album.channel_name,
                                      album.messages, by, t))
  ELSE /\ pending' = pending
       /\ units' = us

\* first step of the task a fired timer created
StartFlushTask ==
  /\ ~closed
  /\ ready # <<>>
  /\ LET t == Head(ready)
     IN FlushAlbumEnter(msgs[t].gid, "timer", t, units)
  /\ ready' = Tail(ready)
  /\ UNCHANGED <<seen, sink, detect, sender, split, rules, evals, filter, msgs, timers, fired, fp, closed>>

\* -------------------------------------------------------- flush_pending
RECURSIVE SkipAbsent(_)
\* iterations of the flush_pending loop whose key is no longer pending:
\* nothing to cancel, _flush_album returns without suspending
SkipAbsent(snap) ==
  IF snap = <<>> THEN <<>>
  ELSE IF Has(pending, Head(snap)) THEN snap
  ELSE SkipAbsent(Tail(snap))

\* the loop of flush_pending over the rest of its snapshot, up to the next
\* suspension (inside _flush_album) or to its return
FlushPendingLoop(snap, us, fpr) ==
  LET rest == SkipAbsent(snap)
  IN IF rest = <<>>
     THEN /\ fp' = [fpr EXCEPT !.status = "returned", !.snap = <<>>, !.unit = 0]
          /\ units' = us
          /\ UNCHANGED <<pending, timers>>
     ELSE LET g == Head(rest)
          IN /\ timers' = timers \ {Get(pending, g).timer}
             /\ FlushAlbumEnter(g, "flush", 0, us)
             /\ fp' = [fpr EXCEPT !.status = "running", !.snap = Tail(rest),
                                  !.unit = Len(us) + 1]

\* MessageRouter.flush_pending() from its call to its first suspension or
\* to its return
FlushPendingCall ==
  /\ ~closed
  /\ fp.status # "running"
  /\ FlushPendingLoop(DictKeys(pending), units,
                      [fp EXCEPT !.n = @ + 1,
                                 !.atCall = {pending[i].messages[1] : i \in 1..Len(pending)}])
  /\ UNCHANGED <<seen, sink, detect, sender, split, rules, evals, filter, msgs, fired, ready, closed>>

\* MessageRouter.flush_pending() is called
flush_pending == fp.n < MaxFlushCalls /\ FlushPendingCall

\* --------------------------------------------------- resuming a unit
\* self.sender.upload_media / send_media / send_text
SenderOps == {"upload_media", "send_media", "send_text"}

\* the calls among cs that go to the sink, as the sink receives them from unit i
SinkCalls(i, cs) ==
  LET ss == SelectSeq(cs, LAMBDA c : c.op \in SenderOps)
  IN [j \in 1..Len(ss) |-> [unit |-> i, op |-> ss[j].op, msg |-> ss[j].msg]]

\* the unit i continues after its awaited call answered res; a unit that
\* flush_pending awaits hands control back to the flush_pending loop
Resume(i, res, r) ==
  LET u == units[i]
      us == [units EXCEPT ![i] = r]
  IN /\ sink' = sink \o SinkCalls(i, SubSeq(r.calls, Len(u.calls) + 1, Len(r.calls)))
     /\ IF u.by = "flush" /\ r.pc = "done"
        THEN FlushPendingLoop(fp.snap, us, fp)
        ELSE IF u.by = "flush" /\ r.pc = "raised"
        THEN /\ fp' = [fp EXCEPT !.status = "raised", !.unit = 0]
             /\ units' = us
             /\ UNCHANGED <<pending, timers>>
        ELSE /\ units' = us
             /\ UNCHANGED <<pending, timers, fp>>
     /\ UNCHANGED <<seen, detect, sender, split, rules, evals, filter, msgs, fired, ready, closed>>

ForwardSingleResume(i, res) ==
  /\ ~closed
  /\ units[i].kind = "single"
  /\ res \in Outcomes(units[i].pc)
  /\ Resume(i, res, ForwardSingleStep(i, units[i], res))

FlushAlbumResume(i, res) ==
  /\ ~closed
  /\ units[i].kind = "album"
  /\ res \in Outcomes(units[i].pc)
  /\ Resume(i, res, FlushAlbumStep(i, units[i], res))

\* ------------------------------------------------------------ shutdown
\* main(): listener.run() returns or raises, then the finally block runs
\* sender.close(); asyncio.run() then cancels what is left and closes the loop
Shutdown ==
  /\ ~closed
  /\ closed' = TRUE
  /\ UNCHANGED <<seen, sink, detect, sender, split, rules, evals, filter, msgs, pending, timers, fired, ready, units, fp>>

AllOutcomes == {"ok", "forward", "skip", "bytes", "none", "raise"}

\* -------------------------------------------------------- ContentFilter
\* the router specifications do not look inside ContentFilter
NoEvaluation == rules = <<>> /\ evals = <<>>

RECURSIVE LStrip(_)
LStrip(t) == IF t # <<>> /\ Head(t) \in Whitespace THEN LStrip(Tail(t)) ELSE t

RECURSIVE RStrip(_)
RStrip(t) ==
  IF t # <<>> /\ t[Len(t)] \in Whitespace THEN RStrip(SubSeq(t, 1, Len(t) - 1)) ELSE t

\* str.strip()
Strip(t) == RStrip(LStrip(t))

FilterResult(a, r, n) == [action |-> a, reason |-> r, filter_name |-> n]

Pending == FilterResult("pending", "", "")

\* mutant of NoText: the text is not stripped
NoTextEmptyOnly(t) == t = <<>>

\* not text or not text.strip()
NoText(t) == t = <<>> \/ Strip(t) = <<>>

\* mutant of RunFilter: a failed rule counts as SKIP (fail closed)
RunFilterFailClosed(name, ans) ==
  IF ans = "error" THEN FilterResult("SKIP", "Filter error", name)
  ELSE FilterResult(ans, "reason", name)

\* _run_filter(name, prompt, text): the parsed decision of the model under
\* the rule's name; any exception counts as FORWARD
RunFilter(name, ans) ==
  IF ans = "error" THEN FilterResult("FORWARD", "Filter error", name)
  ELSE FilterResult(ans, "reason", name)

\* an activation of evaluate: asked lists the rules whose _run_filter was
\* invoked, answers what the model answered to them
Evaluation(t, asked, res) ==
  [text |-> t, asked |-> asked, answers |-> <<>>, result |-> res]

\* ContentFilter.evaluate(text), from its call to its first await or return
evaluate(t) ==
  /\ evals' = Append(evals,
       IF NoText(t)
       THEN Evaluation(t, <<>>, FilterResult("FORWARD", "No text to analyze", "none"))
       ELSE IF rules = <<>>
       THEN Evaluation(t, <<>>, FilterResult("FORWARD", "No filters configured", "none"))
       ELSE Evaluation(t, <<1>>, Pending))
  /\ UNCHANGED <<seen, sink, detect, sender, split, rules, filter, msgs, pending, timers, fired, ready, units, fp, closed>>

\* mutant of EvaluateStep: a skip does not end the loop, the last rule decides
EvaluateStepLastWins(e, ans) ==
  LET k == Len(e.asked)
      decision == RunFilter(rules[k], ans)
      a == [e EXCEPT !.answers = Append(@, ans)]
  IN IF k = Len(rules)
     THEN IF decision.action = "SKIP" THEN [a EXCEPT !.result = decision]
          ELSE [a EXCEPT !.result = FilterResult("FORWARD", "Passed all filters", "all")]
     ELSE [a EXCEPT !.asked = Append(@, k + 1)]

\* the loop of evaluate resumed with the answer ans to the rule it awaits
EvaluateStep(e, ans) ==
  LET k == Len(e.asked)
      decision == RunFilter(rules[k], ans)
      a == [e EXCEPT !.answers = Append(@, ans)]
  IN IF decision.action = "SKIP" THEN [a EXCEPT !.result = decision]
     ELSE IF k = Len(rules)
     THEN [a EXCEPT !.result = FilterResult("FORWARD", "Passed all filters", "all")]
     ELSE [a EXCEPT !.asked = Append(@, k + 1)]

Answers == {"FORWARD", "SKIP", "error"}

\* the awaited completion of the model answers (or fails) for activation i
RunFilterAnswer(i, ans) ==
  /\ evals[i].result = Pending
  /\ evals' = [evals EXCEPT ![i] = EvaluateStep(@, ans)]
  /\ UNCHANGED <<seen, sink, detect, sender, split, rules, filter, msgs, pending, timers, fired, ready, units, fp, closed>>

\* ---------------------------------------------------------- _split_text
\* no text is being split
NoSplit == split = [status |-> "idle", text |-> <<>>, limit |-> 0, rest |-> <<>>,
                    chunks |-> <<>>]

\* text.rfind(c, 0, limit): the highest index i (from 0) below limit with
\* text[i] = c, or -1
RFind(t, c, limit) ==
  LET S == {i \in 0..(limit - 1) : i < Len(t) /\ t[i + 1] = c}
  IN IF S = {} THEN 0 - 1 ELSE Max(S)

\* mutant of SplitCut: a boundary character at index 0 is taken as the cut
SplitCutAtZero(t, limit) ==
  LET nl == RFind(t, "\n", limit)
      sp == RFind(t, " ", limit)
  IN IF nl >= 0 THEN nl ELSE IF sp >= 0 THEN sp ELSE limit

\* mutant of SplitCut: the hard cut leaves room for one character
SplitCutShort(t, limit) ==
  LET nl == RFind(t, "\n", limit)
      sp == RFind(t, " ", limit)
  IN IF nl > 0 THEN nl ELSE IF sp > 0 THEN sp
     ELSE IF limit > 1 THEN limit - 1 ELSE limit

\* the cut of one loop iteration: last newline, else last space, else limit
SplitCut(t, limit) ==
  LET nl == RFind(t, "\n", limit)
      sp == RFind(t, " ", limit)
  IN IF nl > 0 THEN nl ELSE IF sp > 0 THEN sp ELSE limit

\* mutant of SplitRest: the character at the cut is dropped as the separator
SplitRestDropOne(t, cut) == SubSeq(t, cut + 2, Len(t))

\* text = text[cut:].lstrip("\n ")
SplitRest(t, cut) == LStrip(SubSeq(t, cut + 1, Len(t)))

RECURSIVE SplitLoop(_, _)
\* the while loop of _split_text
SplitLoop(t, limit) ==
  IF t = <<>> THEN <<>>
  ELSE IF Len(t) <= limit THEN <<t>>
  ELSE LET cut == SplitCut(t, limit)
       IN <<SubSeq(t, 1, cut)>> \o SplitLoop(SplitRest(t, cut), limit)

\* _split_text(text, limit)
split_text(t, limit) == IF Len(t) <= limit THEN <<t>> ELSE SplitLoop(t, limit)

\* _split_text is called: the early return, or entry into the loop
SplitTextCall(t, limit) ==
  /\ split.status = "idle"
  /\ split' = IF Len(t) <= limit
               THEN [status |-> "returned", text |-> t, limit |-> limit,
                     rest |-> <<>>, chunks |-> <<t>>]
               ELSE [status |-> "loop", text |-> t, limit |-> limit,
                     rest |-> t, chunks |-> <<>>]
  /\ UNCHANGED <<seen, sink, detect, sender, rules, evals, filter, msgs, pending, timers, fired, ready, units, fp,
                 closed>>

\* one iteration of the while loop, and the test of its condition after it
SplitTextIterate ==
  /\ split.status = "loop"
  /\ IF Len(split.rest) <= split.limit
     THEN split' = [split EXCEPT !.chunks = Append(@, split.rest), !.rest = <<>>,
                                 !.status = "returned"]
     ELSE LET cut == SplitCut(split.rest, split.limit)
              rest == SplitRest(split.rest, cut)
          IN split' = [split EXCEPT !.chunks = Append(@, SubSeq(split.rest, 1, cut)),
                                    !.rest = rest,
                                    !.status = IF rest = <<>> THEN "returned" ELSE "loop"]
  /\ UNCHANGED <<seen, sink, detect, sender, rules, evals, filter, msgs, pending, timers, fired, ready, units, fp,
                 closed>>

\* ------------------------------------------------------- WhatsAppSender
MediaTypes == {"image", "video", "document", "audio", "sticker"}

\* no send in progress, nothing posted
NoSend == sender = [status |-> "idle", op |-> "", media_type |-> "", input |-> <<>>,
                    overflow |-> <<>>, queue |-> <<>>, posts |-> <<>>]

\* the JSON payloads handed to client.post(self._messages_url, ...)
TextPayload(body) == [type |-> "text", body |-> body, captioned |-> FALSE]

MediaPayload(mt, captioned, caption) ==
  [type |-> mt, body |-> caption, captioned |-> captioned]

\* send_text from the post of the next chunk of queue to its await, or the
\* return when no chunk is left
PostChunks(sd, queue) ==
  IF queue = <<>> THEN [sd EXCEPT !.status = "returned", !.queue = <<>>]
  ELSE [sd EXCEPT !.status = "post", !.queue = Tail(queue),
                  !.posts = Append(@, TextPayload(Head(queue)))]

\* WhatsAppSender.send_text(text) is called
send_text(t) ==
  /\ sender.status = "idle"
  /\ sender' = PostChunks([sender EXCEPT !.op = "send_text", !.input = t],
                          split_text(t, MAX_TEXT))
  /\ UNCHANGED <<detect, split, rules, evals, routerVars>>

\* mutant of CaptionCut: there is no hard cut when the caption has no space
CaptionCutAtSpaceOnly(c) ==
  LET cut == RFind(c, " ", MAX_CAPTION)
  IN IF cut <= 0 THEN Len(c) ELSE cut

\* cut = caption.rfind(" ", 0, MAX_CAPTION); if cut <= 0: cut = MAX_CAPTION
CaptionCut(c) ==
  LET cut == RFind(c, " ", MAX_CAPTION)
  IN IF cut <= 0 THEN MAX_CAPTION ELSE cut

\* WhatsAppSender.send_media(media_type, media_id, caption) is called;
\* caption <<>> stands for None and for the empty string
send_media(mt, c) ==
  /\ sender.status = "idle"
  /\ LET sd == [sender EXCEPT !.op = "send_media", !.media_type = mt, !.input = c,
                              !.status = "post"]
     IN sender' =
          IF c # <<>> /\ mt \in {"image", "video", "document"}
          THEN IF Len(c) > MAX_CAPTION
               THEN LET cut == CaptionCut(c)
                    IN [sd EXCEPT !.overflow = LStrip(SubSeq(c, cut + 1, Len(c))),
                                  !.posts = <<MediaPayload(mt, TRUE, SubSeq(c, 1, cut))>>]
               ELSE [sd EXCEPT !.posts = <<MediaPayload(mt, TRUE, c)>>]
          ELSE [sd EXCEPT !.posts = <<MediaPayload(mt, FALSE, <<>>)>>]
  /\ UNCHANGED <<detect, split, rules, evals, routerVars>>

\* the awaited client.post answers; response.raise_for_status() raises on an
\* error status
PostAnswer(res) ==
  /\ sender.status = "post"
  /\ sender' =
       IF res = "raise" THEN [sender EXCEPT !.status = "raised"]
       ELSE IF sender.op = "send_media" /\ Len(sender.posts) = 1
       THEN IF sender.overflow # <<>>
            THEN PostChunks(sender, split_text(sender.overflow, MAX_TEXT))
            ELSE [sender EXCEPT !.status = "returned"]
       ELSE PostChunks(sender, sender.queue)
  /\ UNCHANGED <<detect, split, rules, evals, routerVars>>

\* -------------------------------------------------------- _detect_media
\* the attributes of a document: DocumentAttributeFilename (file_name
\* "declared"), DocumentAttributeVideo (flag: round_message),
\* DocumentAttributeAudio (flag: voice), DocumentAttributeSticker,
\* DocumentAttributeAnimated, and any other attribute
Attr(k, f) == [kind |-> k, flag |-> f]

Attrs ==
  {Attr("Filename", FALSE), Attr("Video", FALSE), Attr("Video", TRUE),
   Attr("Audio", FALSE), Attr("Audio", TRUE), Attr("Sticker", FALSE),
   Attr("Animated", FALSE), Attr("Other", FALSE)}

\* the document's mime_type: absent ("") or given
Mimes == {"", "doc/mime"}

MediaInfo(t, m, f) == [wa_type |-> t, mime |-> m, filename |-> f]

NoMedia == MediaInfo("none", "", "")

NoDetect == detect = [status |-> "idle", photo |-> FALSE, document |-> FALSE,
                      mime |-> "", attributes |-> <<>>, result |-> NoMedia]

\* filename = "file"; is_voice = is_video = is_audio = is_sticker = is_gif = False
Flags0 == [filename |-> "file", is_voice |-> FALSE, is_video |-> FALSE,
           is_audio |-> FALSE, is_sticker |-> FALSE, is_gif |-> FALSE]

\* the body of: for attr in doc.attributes
AttrStep(st, a) ==
  CASE a.kind = "Filename" -> [st EXCEPT !.filename = "declared"]
    [] a.kind = "Video" ->
         [st EXCEPT !.is_video = TRUE,
                    !.filename = IF a.flag THEN "video_note.mp4" ELSE @]
    [] a.kind = "Audio" ->
         [st EXCEPT !.is_audio = TRUE,
                    !.is_voice = IF a.flag THEN TRUE ELSE @,
                    !.filename = IF a.flag THEN "voice.ogg" ELSE @]
    [] a.kind = "Sticker" -> [st EXCEPT !.is_sticker = TRUE, !.filename = "sticker.webp"]
    [] a.kind = "Animated" -> [st EXCEPT !.is_gif = TRUE]
    [] OTHER -> st

RECURSIVE AttrLoop(_, _)
AttrLoop(as, st) ==
  IF as = <<>> THEN st ELSE AttrLoop(Tail(as), AttrStep(st, Head(as)))

\* mutant of Classify: video is tested before audio
ClassifyVideoFirst(st, mime) ==
  IF st.is_sticker THEN MediaInfo("sticker", mime, st.filename)
  ELSE IF st.is_video \/ st.is_gif THEN MediaInfo("video", mime, st.filename)
  ELSE IF st.is_voice THEN MediaInfo("audio", "audio/ogg", st.filename)
  ELSE IF st.is_audio THEN MediaInfo("audio", mime, st.filename)
  ELSE MediaInfo("document", mime, st.filename)

\* the returns after the attribute loop
Classify(st, mime) ==
  IF st.is_sticker THEN MediaInfo("sticker", mime, st.filename)
  ELSE IF st.is_voice THEN MediaInfo("audio", "audio/ogg", st.filename)
  ELSE IF st.is_audio THEN MediaInfo("audio", mime, st.filename)
  ELSE IF st.is_video \/ st.is_gif THEN MediaInfo("video", mime, st.filename)
  ELSE MediaInfo("document", mime, st.filename)

\* MessageRouter._detect_media(message)
detect_media(photo, document, mime, as) ==
  IF photo THEN MediaInfo("image", "image/jpeg", "photo.jpg")
  ELSE IF ~document THEN NoMedia
  ELSE Classify(AttrLoop(as, Flags0),
                IF mime = "" THEN "application/octet-stream" ELSE mime)

\* _detect_media is applied to a message
DetectMedia(photo, document, mime, as) ==
  /\ detect.status = "idle"
  /\ detect' = [status |-> "returned", photo |-> photo, document |-> document,
                mime |-> mime, attributes |-> as,
                result |-> detect_media(photo, document, mime, as)]
  /\ UNCHANGED <<sender, split, rules, evals, routerVars>>

\* ------------------------------------------------------ specifications
\* TelegramListener.register_handler: the handler of a NewMessage event calls
\* router.forward(channel_name, event.message).

\* Spec explores the album buffer: bursts of grouped messages over NumKeys
\* keys and two channels, timers, flush_pending and shutdown.  The members
\* are text-only messages and no filter is configured, so every completed
\* album suspends on get_chat and on one send_text, which may raise.
Intake ==
  \E ch \in Channels, g \in Keys :
    /\ Len(msgs) < MaxMsgs
    /\ forward(ch, g, TRUE, "none")
    /\ UNCHANGED seen

ResumeSingle == \E i \in 1..Len(units), res \in AllOutcomes : ForwardSingleResume(i, res)

ResumeAlbum == \E i \in 1..Len(units), res \in AllOutcomes : FlushAlbumResume(i, res)

Init == filter = FALSE /\ InitRouter /\ NoEvaluation /\ NoSplit /\ NoSend /\ NoDetect

Next ==
  \/ Intake
  \/ FireTimer
  \/ StartFlushTask
  \/ flush_pending
  \/ ResumeAlbum
  \/ Shutdown

Spec == Init /\ [][Next]_vars

\* SpecPipeline explores the processing of units: single and grouped messages
\* of every shape (text or not; no media, supported media, unsupported media),
\* with and without a configured filter; albums complete by their timers.
IntakePipeline ==
  \E g \in {0, 1}, tx \in BOOLEAN, md \in Medias :
    /\ Len(msgs) < MaxPipeMsgs
    /\ forward("A", g, tx, md)
    /\ UNCHANGED seen

InitPipeline == filter \in BOOLEAN /\ InitRouter /\ NoEvaluation /\ NoSplit /\ NoSend /\ NoDetect

NextPipeline ==
  \/ IntakePipeline
  \/ FireTimer
  \/ StartFlushTask
  \/ ResumeSingle
  \/ ResumeAlbum

SpecPipeline == InitPipeline /\ [][NextPipeline]_vars

\* SpecAlbum explores the processing of completed albums: up to MaxAlbumMsgs
\* messages of every shape under one grouped_id, with and without a configured
\* filter; the debounce timer splits them into albums of one to MaxAlbumMsgs
\* members.
IntakeAlbum ==
  \E tx \in BOOLEAN, md \in Medias :
    /\ Len(msgs) < MaxAlbumMsgs
    /\ forward("A", 1, tx, md)
    /\ UNCHANGED seen

InitAlbum == filter \in BOOLEAN /\ InitRouter /\ NoEvaluation /\ NoSplit /\ NoSend /\ NoDetect

NextAlbum ==
  \/ IntakeAlbum
  \/ FireTimer
  \/ StartFlushTask
  \/ ResumeAlbum

SpecAlbum == InitAlbum /\ [][NextAlbum]_vars

\* SpecIntake explores intake during the processing of other units: the
\* handler of the listener notes, for each message it hands to forward(),
\* whether a unit was suspended on network I/O at that moment.  Messages are
\* ungrouped or of one grouped_id, with text, with or without supported media.
Handler ==
  \E g \in {0, 1}, md \in {"none", "ok"} :
    /\ Len(msgs) < MaxIntakeMsgs
    /\ forward("A", g, TRUE, md)
    /\ seen' = Append(seen, Busy)

InitIntake == filter = FALSE /\ InitRouter /\ NoEvaluation /\ NoSplit /\ NoSend /\ NoDetect

NextIntake ==
  \/ Handler
  \/ FireTimer
  \/ StartFlushTask
  \/ ResumeSingle
  \/ ResumeAlbum

SpecIntake == InitIntake /\ [][NextIntake]_vars

\* SpecFlush explores repeated calls of flush_pending(): text-only messages
\* of NumKeys keys are accepted until flush_pending() is called for the first
\* time and none afterwards; flush_pending() is called up to MaxReflush times.
IntakeBeforeFlush ==
  \E g \in Keys :
    /\ Len(msgs) < MaxFlushMsgs
    /\ fp.n = 0
    /\ forward("A", g, TRUE, "none")
    /\ UNCHANGED seen

FlushAgain == fp.n < MaxReflush /\ FlushPendingCall

InitFlush == filter = FALSE /\ InitRouter /\ NoEvaluation /\ NoSplit /\ NoSend /\ NoDetect

NextFlush ==
  \/ IntakeBeforeFlush
  \/ FireTimer
  \/ StartFlushTask
  \/ FlushAgain
  \/ ResumeAlbum

SpecFlush == InitFlush /\ [][NextFlush]_vars

\* SpecLive explores the album buffer while the event loop keeps running (no
\* shutdown): text-only messages of NumKeys keys from one channel, timers and
\* flush_pending; every scheduled timer eventually fires, every task created
\* eventually runs, and every awaited collaborator call eventually answers or
\* raises.
IntakeLive ==
  \E g \in Keys :
    /\ Len(msgs) < MaxLiveMsgs
    /\ forward("A", g, TRUE, "none")
    /\ UNCHANGED seen

NextLive ==
  \/ IntakeLive
  \/ FireTimer
  \/ StartFlushTask
  \/ flush_pending
  \/ ResumeAlbum

SpecLive ==
  /\ Init
  /\ [][NextLive]_vars
  /\ WF_vars(FireTimer)
  /\ WF_vars(StartFlushTask)
  /\ WF_vars(ResumeAlbum)

\* SpecFilter explores ContentFilter.evaluate: every list of at most MaxRules
\* rules, every text of at most MaxTextLen characters, every answer of the
\* model to every rule.
Texts == UNION {[1..n -> Chars] : n \in 0..MaxTextLen}

Evaluate == \E t \in Texts : Len(evals) < MaxEvals /\ evaluate(t)

AnswerRule == \E i \in 1..Len(evals), ans \in Answers : RunFilterAnswer(i, ans)

InitFilter ==
  /\ filter = TRUE
  /\ InitRouter
  /\ rules \in UNION {[1..n -> RuleNames] : n \in 0..MaxRules}
  /\ evals = <<>>
  /\ NoSplit
  /\ NoSend
  /\ NoDetect

NextFilter ==
  \/ Evaluate
  \/ AnswerRule

SpecFilter == InitFilter /\ [][NextFilter]_vars

\* SpecSplit explores _split_text: every text of at most MaxSplitLen
\* characters (letters, spaces, newlines) at every limit from 1 to MaxLimit.
SplitTexts == UNION {[1..n -> Chars] : n \in 0..MaxSplitLen}

SplitCall == \E t \in SplitTexts, limit \in 1..MaxLimit : SplitTextCall(t, limit)

InitSplit == filter = FALSE /\ InitRouter /\ NoEvaluation /\ NoSplit /\ NoSend /\ NoDetect

NextSplit ==
  \/ SplitCall
  \/ SplitTextIterate

SpecSplit == InitSplit /\ [][NextSplit]_vars

\* _split_text is synchronous code: once called it runs to its return
SpecSplitFair == SpecSplit /\ WF_vars(SplitTextIterate)

\* SpecSender explores one call of send_text or send_media: every text or
\* caption of at most MaxSplitLen characters, every media type, every answer
\* of the sink to every post.
SendText == \E t \in SplitTexts : send_text(t)

SendMedia == \E mt \in MediaTypes, c \in SplitTexts : send_media(mt, c)

SinkAnswers == \E res \in {"ok", "raise"} : PostAnswer(res)

InitSender == filter = FALSE /\ InitRouter /\ NoEvaluation /\ NoSplit /\ NoSend /\ NoDetect

NextSender ==
  \/ SendText
  \/ SendMedia
  \/ SinkAnswers

SpecSender == InitSender /\ [][NextSender]_vars

\* SpecDetect explores _detect_media: messages with and without photo, with
\* and without document, the document's mime type absent or given, and every
\* attribute list of at most MaxAttrs attributes in every order.
AttrLists == UNION {[1..n -> Attrs] : n \in 0..MaxAttrs}

Detect ==
  \E photo \in BOOLEAN, document \in BOOLEAN, mime \in Mimes, as \in AttrLists :
    /\ ~document => mime = "" /\ as = <<>>
    /\ DetectMedia(photo, document, mime, as)

InitDetect ==
  filter = FALSE /\ InitRouter /\ NoEvaluation /\ NoSplit /\ NoSend /\ NoDetect

NextDetect == Detect

SpecDetect == InitDetect /\ [][NextDetect]_vars

\* ============================================================= claims
\* ---- vocabulary of the claims
Grouped == {m \in 1..Len(msgs) : msgs[m].gid # 0}

AlbumUnits == {u \in 1..Len(units) : units[u].kind = "album"}

\* the places (pending group or completion, and position) that hold message m
PendingPlaces(m) ==
  {<<k, j>> \in (1..Len(pending)) \X (1..Len(msgs)) :
     j <= Len(pending[k].messages) /\ pending[k].messages[j] = m}

CompletedPlaces(m) ==
  {<<u, j>> \in AlbumUnits \X (1..Len(msgs)) :
     j <= Len(units[u].msgs) /\ units[u].msgs[j] = m}

\* the message accepted last before m with the same grouped_id (0 if none)
PredOf(m) ==
  LET S == {i \in 1..(m - 1) : msgs[i].gid = msgs[m].gid}
  IN IF S = {} THEN 0 ELSE Max(S)

\* m directly follows p in one group, pending or completed
Follows(p, m) ==
  \/ \E k \in 1..Len(pending) : \E j \in 1..(Len(pending[k].messages) - 1) :
       pending[k].messages[j] = p /\ pending[k].messages[j + 1] = m
  \/ \E u \in AlbumUnits : \E j \in 1..(Len(units[u].msgs) - 1) :
       units[u].msgs[j] = p /\ units[u].msgs[j + 1] = m

\* m is the first message of its group, pending or completed
StartsGroup(m) ==
  \/ \E k \in 1..Len(pending) : pending[k].messages[1] = m
  \/ \E u \in AlbumUnits : units[u].msgs[1] = m

\* C1: under every interleaving of forward(), timer firings and
\* flush_pending(), every buffered message sits in exactly one place: either
\* in one pending group or in one completion (never in two completions, never
\* lost), and no grouped_id has two pending groups.
C1_CompletedAtMostOnce ==
  /\ \A m \in Grouped : Cardinality(PendingPlaces(m)) + Cardinality(CompletedPlaces(m)) = 1
  /\ \A j, k \in 1..Len(pending) : pending[j].gid = pending[k].gid => j = k

\* C1 witness: one key was completed by the task of a fired timer, a group was
\* completed by flush_pending, and a later task of a fired timer found
\* nothing left to complete.
C1_Witness ==
  /\ \E u \in AlbumUnits : units[u].by = "timer" /\ Len(units[u].msgs) = 2
  /\ \E u \in AlbumUnits : units[u].by = "flush"
  /\ Cardinality(fired) > Cardinality({u \in AlbumUnits : units[u].by = "timer"})
  /\ ready = <<>>

\* C2: a message accepted while the timer its predecessor (the previous
\* message with the same grouped_id) scheduled is still waiting to fire joins
\* the predecessor's group directly behind it, so a burst ends up in one
\* completion in arrival order.
C2_BurstInOneCompletion ==
  \A m \in Grouped : msgs[m].predTimer = "live" => Follows(PredOf(m), m)

\* C3: a message accepted after the timer of its predecessor has fired is
\* never appended to the predecessor's group: it starts a new group.
C3_LateMessageStartsNewGroup ==
  \A m \in Grouped : msgs[m].predTimer = "fired" => StartsGroup(m)

\* C4: a grouped_id is in _pending_albums if and only if a timer scheduled
\* for it is neither fired nor cancelled.
C4_PendingIffLiveTimer ==
  \A k \in Keys : Has(pending, k) <=> (\E t \in timers : msgs[t].gid = k)

\* the completions of the group that message a started
CompletionsOf(a) == {u \in AlbumUnits : units[u].msgs[1] = a}

\* C5: when flush_pending() is over, every group that was pending when it
\* was called has been completed exactly once, none skipped and none twice.
C5_FlushCompletesEachOnce ==
  fp.status \in {"returned", "raised"} =>
    \A a \in fp.atCall : Cardinality(CompletionsOf(a)) = 1

\* C6: when the sink is closed at shutdown no album is left in the buffer:
\* flush_pending() has completed every pending group before.
C6_NoAlbumLostAtShutdown ==
  closed => pending = <<>> /\ fp.status # "running"

\* flush_pending() returns in this step
FlushReturns ==
  /\ fp'.status = "returned"
  /\ fp.status = "running" \/ fp'.n > fp.n

\* C7: at the step in which flush_pending() returns, _pending_albums is empty.
C7_EmptyWhenFlushReturns ==
  [][FlushReturns => pending' = <<>>]_vars

\* what the router holds for grouped_id k: its pending group (messages,
\* channel name, timer) and its scheduled timers
KeyState(k) ==
  <<IF Has(pending, k) THEN <<Get(pending, k)>> ELSE <<>>,
    {t \in timers : msgs[t].gid = k}>>

\* this step accepts a message with grouped_id k
Adds(k) == Len(msgs') = Len(msgs) + 1 /\ msgs'[Len(msgs')].gid = k

\* this step completes the pending group of grouped_id k
Completes(k) ==
  /\ Len(units') = Len(units) + 1
  /\ units'[Len(units')].kind = "album"
  /\ units'[Len(units')].gid = k

\* C8: a step that adds a message to the group of k1, or completes the group
\* of k1, leaves what the router holds for every other key k2 unchanged.
C8_KeysIndependent ==
  [][\A k1, k2 \in Keys :
       k1 # k2 /\ (Adds(k1) \/ Completes(k1)) => KeyState(k2)' = KeyState(k2)]_vars

\* C8 witness: the group of one key has grown to two messages and has been
\* completed while another key still holds its pending group and timer.
C8_Witness ==
  \E k1, k2 \in Keys :
    /\ k1 # k2
    /\ \E u \in AlbumUnits : units[u].gid = k1 /\ Len(units[u].msgs) = 2
    /\ Has(pending, k2)
    /\ Get(pending, k2).timer \in timers

\* every collaborator call made for a grouped message was made by a
\* completion that holds the message
CallsAfterCompletion ==
  \A u \in 1..Len(units) : \A c \in 1..Len(units[u].calls) :
    units[u].calls[c].msg \in Grouped =>
      units[u].kind = "album" /\ units[u].calls[c].msg \in Range(units[u].msgs)

\* C9: forward() of a grouped message starts no unit and makes no
\* collaborator call, it only puts the message at the end of its key's pending
\* group; every call for a grouped message is made by its group's completion.
\* forward() of a message without grouped_id starts processing it at once, and
\* neither that step nor any later step of its processing changes the pending
\* set or the timers.
C9_GroupedDeferredSingleImmediate ==
  [][/\ \A g \in Keys : Adds(g) =>
          /\ units' = units
          /\ Has(pending', g)
          /\ LET ms == Get(pending', g).messages IN ms[Len(ms)] = Len(msgs')
     /\ Adds(0) =>
          /\ pending' = pending
          /\ timers' = timers
          /\ Len(units') = Len(units) + 1
          /\ units'[Len(units')].kind = "single"
          /\ units'[Len(units')].msgs = <<Len(msgs')>>
     /\ \A i \in 1..Len(units) :
          units[i].kind = "single" /\ units'[i] # units[i] =>
            pending' = pending /\ timers' = timers
     /\ CallsAfterCompletion']_vars

\* C9 witness: a message without grouped_id has reached the sink while a
\* grouped message sits in the buffer with its timer, with no call made for it.
C9_Witness ==
  /\ \E u \in 1..Len(units) :
       units[u].kind = "single" /\ units[u].pc = "done" /\ units[u].calls # <<>>
  /\ \E k \in 1..Len(pending) : pending[k].timer \in timers
  /\ \A u \in 1..Len(units) : units[u].kind = "single"

\* C10: a single message with text, under a configured filter: the first
\* collaborator call is the filter's evaluate (so it precedes any
\* download_media), and after a skip verdict the calls of the unit are exactly
\* evaluate and one send_text notification: no download_media, upload_media
\* or send_media.
C10_FilterBeforeFetch ==
  \A u \in 1..Len(units) :
    LET m == units[u].msgs[1] IN
    units[u].kind = "single" /\ msgs[m].text /\ filter =>
      /\ units[u].calls # <<>> => units[u].calls[1].op = "evaluate"
      /\ units[u].verdict = "skip" =>
           units[u].calls = <<Call(u, "evaluate", m, ""), Call(u, "send_text", m, "skip")>>

\* C10 witness: a single message with text and supported media was skipped
\* by the filter and its processing has ended.
C10_Witness ==
  \E u \in 1..Len(units) :
    /\ units[u].kind = "single"
    /\ filter
    /\ msgs[units[u].msgs[1]].text
    /\ msgs[units[u].msgs[1]].media = "ok"
    /\ units[u].verdict = "skip"
    /\ units[u].pc = "done"

\* ---- vocabulary of the claims about the processing of a unit
\* the calls of unit u whose operation is in S, in the order they were made
OpsOf(u, S) == SelectSeq(units[u].calls, LAMBDA c : c.op \in S)

SinkOps == {"upload_media", "send_media", "send_text"}

\* the first member of unit u, in arrival order, that carries text (0 if none)
TextOf(u) ==
  LET ms == units[u].msgs
      S == {j \in 1..Len(ms) :
              msgs[ms[j]].text /\ \A k \in 1..(j - 1) : ~msgs[ms[k]].text}
  IN IF S = {} THEN 0 ELSE ms[CHOOSE j \in S : TRUE]

\* C11: a completed album whose album text got the skip verdict is discarded
\* as a whole: its calls are the evaluate and one send_text (the skip
\* notification) and nothing else, so no member is downloaded and there is no
\* upload_media and no send_media, wherever in the album the text sits.
C11_SkippedAlbumDiscarded ==
  \A u \in AlbumUnits :
    units[u].verdict = "skip" =>
      /\ units[u].calls = <<Call(u, "evaluate", TextOf(u), ""),
                            Call(u, "send_text", TextOf(u), "skip")>>
      /\ units[u].fetched = <<>>

\* C11 witness: an album of three members, the first two with supported media
\* and no text, the text on the last one, was skipped and its processing ended.
C11_Witness ==
  \E u \in AlbumUnits :
    /\ Len(units[u].msgs) = 3
    /\ \A j \in 1..2 : msgs[units[u].msgs[j]].media = "ok" /\ ~msgs[units[u].msgs[j]].text
    /\ msgs[units[u].msgs[3]].text
    /\ units[u].verdict = "skip"
    /\ units[u].pc = "done"

\* C12: the album text is the text of the first member in arrival order that
\* carries text: every evaluate and every send_text of an album is made with
\* that member's text; the filter is evaluated at most once per album, and
\* exactly once as soon as a configured filter meets an album with text.
C12_AlbumTextFirstNonEmpty ==
  \A u \in AlbumUnits :
    /\ Len(OpsOf(u, {"evaluate"})) <= 1
    /\ \A c \in 1..Len(units[u].calls) :
         units[u].calls[c].op \in {"evaluate", "send_text"} =>
           TextOf(u) # 0 /\ units[u].calls[c].msg = TextOf(u)
    /\ filter /\ TextOf(u) # 0 /\ units[u].pc # "get_chat" =>
         Len(OpsOf(u, {"evaluate"})) = 1
    /\ ~filter \/ TextOf(u) = 0 => Len(OpsOf(u, {"evaluate"})) = 0

\* C12 witness: an album whose first member has no text and whose second and
\* third members both have text passed the filter and ended with a text send.
C12_Witness ==
  \E u \in AlbumUnits :
    /\ Len(units[u].msgs) = 3
    /\ ~msgs[units[u].msgs[1]].text
    /\ msgs[units[u].msgs[2]].text
    /\ msgs[units[u].msgs[3]].text
    /\ units[u].verdict = "forward"
    /\ Len(OpsOf(u, {"send_text"})) = 1
    /\ units[u].pc = "done"

\* the positions of the members of unit u whose download_media answered bytes
FetchedPlaces(u) ==
  {j \in 1..Len(units[u].msgs) :
     \E f \in 1..Len(units[u].fetched) :
       units[u].fetched[f] = [msg |-> units[u].msgs[j], res |-> "bytes"]}

\* C13: in an album the first send_media made carries the caption and every
\* later send_media carries none; the send_media with the caption is for the
\* first member in arrival order that has supported media and was downloaded,
\* whichever members were excluded before it and whichever member has the text.
C13_CaptionOnFirstDelivered ==
  \A u \in AlbumUnits :
    LET sm == OpsOf(u, {"send_media"})
    IN /\ \A c \in 1..Len(sm) : (sm[c].what = "caption") <=> (c = 1)
       /\ sm # <<>> =>
            /\ FetchedPlaces(u) # {}
            /\ sm[1].msg = units[u].msgs[Min(FetchedPlaces(u))]
            /\ msgs[sm[1].msg].media = "ok"

\* C13 witness: an album of three members ended: the first was excluded, the
\* second was sent with the caption, the third (the only one with text) was
\* sent without caption.
C13_Witness ==
  \E u \in AlbumUnits :
    /\ Len(units[u].msgs) = 3
    /\ units[u].pc = "done"
    /\ ~msgs[units[u].msgs[1]].text /\ ~msgs[units[u].msgs[2]].text
    /\ msgs[units[u].msgs[3]].text
    /\ OpsOf(u, {"send_media"}) = <<Call(u, "send_media", units[u].msgs[2], "caption"),
                                    Call(u, "send_media", units[u].msgs[3], "nocaption")>>

\* the processing of unit u has ended (returned or raised)
Ended(u) == units[u].pc \in {"done", "raised"}

\* C14: an album that was not skipped and whose processing ended without any
\* member downloaded (each member has no media, an unsupported mime type or a
\* download that answered None): with album text its sink calls are exactly
\* one send_text of that text, without album text it made no sink call.
C14_NothingDeliveredFallsBackToText ==
  \A u \in AlbumUnits :
    Ended(u) /\ units[u].verdict # "skip" /\ FetchedPlaces(u) = {} =>
      /\ \A j \in 1..Len(units[u].msgs) :
           msgs[units[u].msgs[j]].media = "ok" =>
             \E f \in 1..Len(units[u].fetched) :
               units[u].fetched[f] = [msg |-> units[u].msgs[j], res |-> "none"]
      /\ OpsOf(u, SinkOps) =
           IF TextOf(u) # 0 THEN <<Call(u, "send_text", TextOf(u), "text")>> ELSE <<>>

\* C14 witness: two albums ended with nothing delivered: one of two members
\* (one unsupported, one whose download failed) with text, which made one
\* send_text, and one without text whose only download failed, which made no
\* sink call.
C14_Witness ==
  \E u, v \in AlbumUnits :
    /\ units[u].pc = "done" /\ units[v].pc = "done"
    /\ Len(units[u].msgs) = 2
    /\ \E j \in 1..2 : msgs[units[u].msgs[j]].media = "unsupported"
    /\ units[u].fetched # <<>> /\ FetchedPlaces(u) = {}
    /\ TextOf(u) # 0 /\ Len(OpsOf(u, {"send_text"})) = 1
    /\ TextOf(v) = 0
    /\ units[v].fetched # <<>> /\ FetchedPlaces(v) = {}
    /\ OpsOf(v, SinkOps) = <<>>

\* the members of unit u whose download_media answered bytes, in arrival order
FetchedMembers(u) ==
  LET ps == SelectSeq([j \in 1..Len(units[u].msgs) |-> j],
                      LAMBDA j : j \in FetchedPlaces(u))
  IN [c \in 1..Len(ps) |-> units[u].msgs[ps[c]]]

\* C15: in an album the members uploaded are exactly, in arrival order, the
\* members with supported media whose download answered bytes; upload_media
\* and send_media alternate, each send_media directly after the upload_media
\* of the same member, and an upload_media is left without its send_media
\* only while it is awaited or when it raised; a member without media, with an
\* unsupported mime type or with a failed download causes no sink call and no
\* notification, and does not end the album: an album that returns without a
\* skip has asked every member with supported media for its bytes.
C15_PairsForDeliverableMembers ==
  \A u \in AlbumUnits :
    LET up == OpsOf(u, {"upload_media"})
        pr == OpsOf(u, {"upload_media", "send_media"})
    IN /\ [c \in 1..Len(up) |-> up[c].msg] = FetchedMembers(u)
       /\ \A j \in FetchedPlaces(u) : msgs[units[u].msgs[j]].media = "ok"
       /\ \A c \in 1..Len(pr) :
            IF c % 2 = 1 THEN pr[c].op = "upload_media"
            ELSE pr[c].op = "send_media" /\ pr[c].msg = pr[c - 1].msg
       /\ Len(pr) % 2 = 1 => units[u].pc \in {"upload", "raised"}
       /\ \A c \in 1..Len(units[u].calls) : units[u].calls[c].what # "unsupported"
       /\ units[u].pc = "raised" =>
            units[u].calls[Len(units[u].calls)].op \in SinkOps
       /\ units[u].pc = "done" /\ units[u].verdict # "skip" =>
            \A j \in 1..Len(units[u].msgs) :
              msgs[units[u].msgs[j]].media = "ok" =>
                \E f \in 1..Len(units[u].fetched) : units[u].fetched[f].msg = units[u].msgs[j]

\* C15 witness: an album of three members returned: the download of the first
\* failed, the second has an unsupported mime type, the third was uploaded and
\* sent; these are its only sink calls.
C15_Witness ==
  \E u \in AlbumUnits :
    /\ Len(units[u].msgs) = 3
    /\ units[u].pc = "done"
    /\ msgs[units[u].msgs[1]].media = "ok"
    /\ msgs[units[u].msgs[2]].media = "unsupported"
    /\ units[u].fetched = <<[msg |-> units[u].msgs[1], res |-> "none"],
                            [msg |-> units[u].msgs[3], res |-> "bytes"]>>
    /\ OpsOf(u, SinkOps) = <<Call(u, "upload_media", units[u].msgs[3], ""),
                             Call(u, "send_media", units[u].msgs[3], "caption")>>

SingleUnits == {u \in 1..Len(units) : units[u].kind = "single"}

\* C16: a single message with supported media whose download_media answered
\* None: with text its sink calls are exactly one send_text of the text, and
\* without text it made no sink call; in both cases no upload_media and no
\* send_media.
C16_SingleFetchAbsent ==
  \A u \in SingleUnits :
    LET m == units[u].msgs[1] IN
    units[u].fetched = <<[msg |-> m, res |-> "none"]>> =>
      /\ msgs[m].media = "ok"
      /\ OpsOf(u, SinkOps) =
           IF msgs[m].text THEN <<Call(u, "send_text", m, "text")>> ELSE <<>>

\* C16 witness: the downloads of two single messages answered None and both
\* were processed to the end: the one with text made one send_text, the one
\* without text made no sink call.
C16_Witness ==
  \E u, v \in SingleUnits :
    /\ units[u].pc = "done" /\ units[v].pc = "done"
    /\ units[u].fetched # <<>> /\ units[u].fetched[1].res = "none"
    /\ units[v].fetched # <<>> /\ units[v].fetched[1].res = "none"
    /\ msgs[units[u].msgs[1]].text /\ Len(OpsOf(u, {"send_text"})) = 1
    /\ ~msgs[units[v].msgs[1]].text /\ units[v].calls = <<Call(v, "download_media", units[v].msgs[1], "")>>

\* C17: a single message whose media has a mime type outside
\* WA_SUPPORTED_MIMES never has download_media, upload_media or send_media
\* called; once it is past the filter without a skip verdict (so its media was
\* classified) it has made exactly one send_text, the unsupported-media
\* notification.
C17_UnsupportedNotifiedNotFetched ==
  \A u \in SingleUnits :
    LET m == units[u].msgs[1] IN
    msgs[m].media = "unsupported" =>
      /\ OpsOf(u, {"download_media", "upload_media", "send_media"}) = <<>>
      /\ units[u].fetched = <<>>
      /\ units[u].pc \notin {"get_chat", "evaluate"} /\ units[u].verdict # "skip" =>
           OpsOf(u, SinkOps) = <<Call(u, "send_text", m, "unsupported")>>

\* C17 witness: a single message with text and unsupported media passed a
\* configured filter and its processing ended after the notification.
C17_Witness ==
  \E u \in SingleUnits :
    /\ msgs[units[u].msgs[1]].media = "unsupported"
    /\ msgs[units[u].msgs[1]].text
    /\ units[u].verdict = "forward"
    /\ units[u].pc = "done"
    /\ Len(OpsOf(u, {"send_text"})) = 1

\* C18: evaluate is called for a unit only if a filter is configured and the
\* unit has text.  A single message or album without text never gets a
\* verdict and never causes a skip notification: it goes straight to its
\* media, so the first call of a textless unit with supported media is the
\* download of its first such member.
C18_NoTextNoFilter ==
  \A u \in 1..Len(units) :
    /\ OpsOf(u, {"evaluate"}) # <<>> => filter /\ TextOf(u) # 0
    /\ TextOf(u) = 0 =>
         /\ units[u].verdict = "none"
         /\ OpsOf(u, {"evaluate", "send_text"}) \in
              {<<>>, <<Call(u, "send_text", units[u].msgs[1], "unsupported")>>}
         /\ \A j \in 1..Len(units[u].msgs) :
              /\ units[u].pc # "get_chat"
              /\ msgs[units[u].msgs[j]].media = "ok"
              /\ \A k \in 1..(j - 1) : msgs[units[u].msgs[k]].media # "ok"
              /\ units[u].kind = "album" \/ j = 1
              => units[u].calls[1] = Call(u, "download_media", units[u].msgs[j], "")

\* C18 witness: with a filter configured, a single message without text and
\* an album without text were both delivered by send_media.
C18_Witness ==
  /\ filter
  /\ \E u \in SingleUnits, v \in AlbumUnits :
       /\ TextOf(u) = 0 /\ TextOf(v) = 0
       /\ units[u].pc = "done" /\ units[v].pc = "done"
       /\ Len(OpsOf(u, {"send_media"})) = 1
       /\ Len(OpsOf(v, {"send_media"})) = 1

\* ---- vocabulary of the claims about ContentFilter.evaluate
\* the rules (by position) that answered SKIP to activation e
Skips(e) == {k \in 1..Len(e.answers) : e.answers[k] = "SKIP"}

\* text is empty or consists of whitespace only
Blank(t) == \A k \in 1..Len(t) : t[k] \in Whitespace

\* C19: evaluate asks the rules in configured order, one after the other from
\* the first.  As soon as a rule answers SKIP the result is SKIP under that
\* rule's name and no later rule is asked; a result of SKIP always comes from
\* such a rule; when every rule has answered and none skipped, the result is
\* FORWARD under the sentinel name "all".
C19_FirstSkipWins ==
  \A i \in 1..Len(evals) :
    LET e == evals[i] IN
    /\ e.asked = [k \in 1..Len(e.asked) |-> k]
    /\ Len(e.asked) <= Len(rules)
    /\ Skips(e) # {} =>
         /\ e.result.action = "SKIP"
         /\ e.result.filter_name = rules[Min(Skips(e))]
         /\ Len(e.asked) = Min(Skips(e))
         /\ Len(e.answers) = Min(Skips(e))
    /\ e.result.action = "SKIP" => Skips(e) # {}
    /\ Skips(e) = {} /\ e.asked # <<>> /\ e.result # Pending =>
         /\ e.result.action = "FORWARD"
         /\ e.result.filter_name = "all"
         /\ Len(e.answers) = Len(rules)

\* C19 witness: with three rules configured, the first rule did not skip, the
\* second (of another name) answered SKIP and gave the result its name; the
\* third was not asked.
C19_Witness ==
  \E i \in 1..Len(evals) :
    /\ Len(rules) = 3
    /\ rules[1] # rules[2]
    /\ evals[i].answers = <<"FORWARD", "SKIP">>
    /\ evals[i].asked = <<1, 2>>
    /\ evals[i].result.filter_name = rules[2]

\* C20: evaluate of an empty or whitespace-only text, or with an empty rule
\* list, returns FORWARD at once: no rule is asked and the model never
\* answers.
C20_NoTextOrNoRulesForwards ==
  \A i \in 1..Len(evals) :
    Blank(evals[i].text) \/ rules = <<>> =>
      /\ evals[i].result.action = "FORWARD"
      /\ evals[i].asked = <<>>
      /\ evals[i].answers = <<>>

\* C20 witness: with rules configured, evaluate was called with a text that
\* is not empty but consists of whitespace, and returned without asking a rule.
C20_Witness ==
  \E i \in 1..Len(evals) :
    /\ rules # <<>>
    /\ evals[i].text # <<>>
    /\ Blank(evals[i].text)
    /\ evals[i].result.action = "FORWARD"
    /\ evals[i].asked = <<>>

\* C21: a rule whose evaluator failed counts as FORWARD: evaluate goes on to
\* the next rule if there is one, its result is never a failure and is SKIP
\* only under the name of a rule that itself answered SKIP, and a rule after
\* the failed one can still give that SKIP.
C21_FailedRuleForwards ==
  \A i \in 1..Len(evals) :
    LET e == evals[i] IN
    \A k \in 1..Len(e.answers) :
      e.answers[k] = "error" =>
        /\ e.result.action \in {"pending", "FORWARD", "SKIP"}
        /\ k < Len(rules) => Len(e.asked) > k
        /\ k = Len(rules) => e.result.action = "FORWARD"
        /\ e.result.action = "SKIP" =>
             /\ Skips(e) # {}
             /\ Min(Skips(e)) > k
             /\ e.result.filter_name = rules[Min(Skips(e))]
        /\ Skips(e) = {} => e.result.action # "SKIP"

\* C21 witness: the evaluator failed for the first rule and the second rule
\* answered SKIP, which is the result.
C21_Witness ==
  \E i \in 1..Len(evals) :
    /\ evals[i].answers = <<"error", "SKIP">>
    /\ evals[i].result.action = "SKIP"
    /\ evals[i].result.filter_name = rules[2]

\* ---- vocabulary of the claims about _split_text
RECURSIVE Rebuilds(_, _)
\* text t is the chunks cs in order, each followed by whitespace only
\* (possibly none): nothing but boundary whitespace is missing from the chunks
Rebuilds(t, cs) ==
  IF cs = <<>> THEN Blank(t)
  ELSE LET c == Head(cs)
       IN /\ Len(c) <= Len(t)
          /\ SubSeq(t, 1, Len(c)) = c
          /\ \E g \in 0..(Len(t) - Len(c)) :
               /\ Blank(SubSeq(t, Len(c) + 1, Len(c) + g))
               /\ Rebuilds(SubSeq(t, Len(c) + g + 1, Len(t)), Tail(cs))

\* the characters of t that are neither newline nor space, in order
Letters(t) == SelectSeq(t, LAMBDA c : c \notin Whitespace)

RECURSIVE Concat(_)
Concat(cs) == IF cs = <<>> THEN <<>> ELSE Head(cs) \o Concat(Tail(cs))

\* C22: every chunk _split_text emits is at most limit characters long, and
\* when it has returned the text is its chunks in order with only newlines
\* and spaces missing between and after them, so the other characters and
\* their order are kept.
C22_ChunksBoundedAndRebuild ==
  /\ \A c \in 1..Len(split.chunks) : Len(split.chunks[c]) <= split.limit
  /\ split.status = "returned" =>
       /\ Rebuilds(split.text, split.chunks)
       /\ Letters(Concat(split.chunks)) = Letters(split.text)
       /\ split.chunks = split_text(split.text, split.limit)

\* C22 witness: a text was split into three chunks and whitespace between two
\* letters was dropped at a boundary.
C22_Witness ==
  /\ split.status = "returned"
  /\ Len(split.chunks) = 3
  /\ Len(Concat(split.chunks)) < Len(split.text)
  /\ split.text[1] = "a" /\ split.text[Len(split.text)] = "a"

\* C23: a text without newline and space that is longer than the limit is cut
\* hard: its first chunk is its first limit characters, every chunk but the
\* last has exactly limit characters and nothing is dropped (so limit + k
\* characters with k <= limit give two chunks of limit and k characters).
C23_HardCutAtLimit ==
  Letters(split.text) = split.text /\ Len(split.text) > split.limit =>
    /\ split.chunks # <<>> => split.chunks[1] = SubSeq(split.text, 1, split.limit)
    /\ split.status = "returned" =>
         /\ \A c \in 1..(Len(split.chunks) - 1) : Len(split.chunks[c]) = split.limit
         /\ Concat(split.chunks) = split.text
         /\ Len(split.text) <= 2 * split.limit =>
              /\ Len(split.chunks) = 2
              /\ Len(split.chunks[2]) = Len(split.text) - split.limit

\* C23 witness: five letters at limit 3 were split into chunks of 3 and 2.
C23_Witness ==
  /\ split.status = "returned"
  /\ split.text = <<"a", "a", "a", "a", "a">>
  /\ split.limit = 3
  /\ split.chunks = <<<<"a", "a", "a">>, <<"a", "a">>>>

\* C24 as stated: every chunk _split_text emits is non-empty, for every text.
C24_EveryChunkNonEmpty ==
  \A c \in 1..Len(split.chunks) : split.chunks[c] # <<>>

\* C24, amended: every loop iteration emits one chunk and leaves a strictly
\* shorter remaining text, and the loop, once entered, reaches the return; for
\* a non-empty text every emitted chunk is non-empty and the returned chunk
\* sequence is non-empty; the empty text returns the one empty chunk.
C24_TerminatesWithProgress ==
  /\ [][split.status = "loop" =>
          /\ Len(split'.rest) < Len(split.rest)
          /\ Len(split'.chunks) = Len(split.chunks) + 1]_vars
  /\ [](split.text # <<>> =>
          /\ \A c \in 1..Len(split.chunks) : split.chunks[c] # <<>>
          /\ split.status = "returned" => split.chunks # <<>>)
  /\ [](split.status = "returned" /\ split.text = <<>> => split.chunks = << <<>> >>)
  /\ (split.status = "loop" ~> split.status = "returned")

\* C24 witness: a text that begins with a newline (a boundary at index 0,
\* which is not taken as a cut) was split in three iterations.
C24_Witness ==
  /\ split.status = "returned"
  /\ Len(split.chunks) = 3
  /\ split.text[1] = "\n"

\* ---- vocabulary of the claims about WhatsAppSender
\* the bodies of the text payloads posted after the first payload
TrailingTexts ==
  LET later == SubSeq(sender.posts, 2, Len(sender.posts))
  IN [k \in 1..Len(later) |-> later[k].body]

\* C25: no payload posted to the sink exceeds the sink limits: every text
\* body is at most MAX_TEXT characters and every caption attached to a media
\* payload is at most MAX_CAPTION characters, whatever text or caption
\* send_text and send_media were given.
C25_PayloadsWithinLimits ==
  \A k \in 1..Len(sender.posts) :
    IF sender.posts[k].type = "text"
    THEN Len(sender.posts[k].body) <= MAX_TEXT
    ELSE Len(sender.posts[k].body) <= MAX_CAPTION

\* C25 witness: send_media returned after a caption longer than both limits
\* together: it posted a caption of MAX_CAPTION characters and more than one
\* trailing text.
C25_Witness ==
  /\ sender.status = "returned"
  /\ sender.op = "send_media"
  /\ Len(sender.input) > MAX_CAPTION + MAX_TEXT
  /\ Len(sender.posts) >= 3
  /\ Len(sender.posts[1].body) = MAX_CAPTION

\* C26: whenever send_media has returned for a caption longer than
\* MAX_CAPTION, its first payload is the media with a prefix of the caption,
\* every later payload is a text, and the caption is the prefix followed by
\* the trailing texts with only whitespace missing at the cuts.
C26_CaptionOverflowPreserved ==
  sender.status = "returned" /\ sender.op = "send_media"
    /\ Len(sender.input) > MAX_CAPTION =>
      /\ sender.posts[1].type = sender.media_type
      /\ sender.posts[1].captioned
      /\ \A k \in 2..Len(sender.posts) : sender.posts[k].type = "text"
      /\ Rebuilds(sender.input, <<sender.posts[1].body>> \o TrailingTexts)

\* C26 restricted to the media types that take a caption
C26_HoldsForCaptionedTypes ==
  sender.media_type \in {"image", "video", "document"} => C26_CaptionOverflowPreserved

\* ---- vocabulary of the claims about _detect_media
\* the document handed to _detect_media has an attribute of kind k with flag f
HasAttr(k, f) ==
  \E j \in 1..Len(detect.attributes) : detect.attributes[j] = Attr(k, f)

\* _detect_media has classified a document (the message has no photo)
ClassifiedDocument == detect.status = "returned" /\ ~detect.photo /\ detect.document

\* how many of the three attributes that force a filename the document has
Forcing ==
  (IF HasAttr("Sticker", FALSE) THEN 1 ELSE 0) + (IF HasAttr("Audio", TRUE) THEN 1 ELSE 0)
    + (IF HasAttr("Video", TRUE) THEN 1 ELSE 0)

\* C27: for a document with one of the attributes that force a filename
\* (sticker, voice audio, round video), the forced filename is returned
\* whether or not a filename attribute is present and wherever it stands in
\* the attribute list.
C27_ForcedFilenameWins ==
  ClassifiedDocument /\ Forcing = 1 =>
    /\ HasAttr("Sticker", FALSE) => detect.result.filename = "sticker.webp"
    /\ HasAttr("Audio", TRUE) => detect.result.filename = "voice.ogg"
    /\ HasAttr("Video", TRUE) => detect.result.filename = "video_note.mp4"

\* the category and mime type the first-match order gives, from the set of
\* attributes alone
ExpectedMedia ==
  LET mime == IF detect.mime = "" THEN "application/octet-stream" ELSE detect.mime
  IN IF detect.photo THEN <<"image", "image/jpeg">>
     ELSE IF ~detect.document THEN <<"none", "">>
     ELSE IF HasAttr("Sticker", FALSE) THEN <<"sticker", mime>>
     ELSE IF HasAttr("Audio", TRUE) THEN <<"audio", "audio/ogg">>
     ELSE IF HasAttr("Audio", FALSE) THEN <<"audio", mime>>
     ELSE IF HasAttr("Video", FALSE) \/ HasAttr("Video", TRUE) \/ HasAttr("Animated", FALSE)
     THEN <<"video", mime>>
     ELSE <<"document", mime>>

C29_MemberFailureRecovered ==
  \A u \in AlbumUnits :
    units[u].pc = "raised" =>
      units[u].calls[Len(units[u].calls)].op \notin {"upload_media", "send_media"}

\* C30: when flush_pending() is over because the processing of a group
\* raised, no group that was pending at its call is left in the buffer: the
\* groups behind the failed one were flushed all the same.
C30_FlushGoesOnAfterFailure ==
  fp.status = "raised" =>
    \A k \in 1..Len(pending) : pending[k].messages[1] \notin fp.atCall

\* a step in which forward() accepts a message
Accepts == Len(msgs') = Len(msgs) + 1

\* the units suspended on network I/O
Suspended == {u \in 1..Len(units) : units[u].pc \in IOAwaits}

\* C31: while a unit is suspended on a media fetch, an upload or a send,
\* forward() can accept a message, grouped or not; the step that accepts a
\* grouped message appends it to the pending group of its key (or starts that
\* group) and the step that accepts an ungrouped message starts a new unit for
\* it; neither step changes any unit that exists, so the suspended unit is
\* still suspended where it was.
C31_IntakeDuringSuspension ==
  /\ [](Busy /\ ~closed =>
          /\ ENABLED forward("A", 1, TRUE, "none")
          /\ ENABLED forward("A", 0, TRUE, "none"))
  /\ [][Busy /\ Accepts =>
          LET id == Len(msgs')
              g == msgs'[id].gid
          IN /\ \A u \in 1..Len(units) : units'[u] = units[u]
             /\ g # 0 =>
                  /\ units' = units
                  /\ Has(pending', g)
                  /\ LET ms == Get(pending', g).messages
                     IN /\ ms[Len(ms)] = id
                        /\ Has(pending, g) =>
                             SubSeq(ms, 1, Len(ms) - 1) = Get(pending, g).messages
             /\ g = 0 =>
                  /\ Len(units') = Len(units) + 1
                  /\ units'[Len(units')].kind = "single"
                  /\ units'[Len(units')].msgs = <<id>>
                  /\ units'[Len(units')].pc = "get_chat"
                  /\ pending' = pending]_vars

\* C31 witness: an album is suspended on its upload; while it was suspended
\* the handler handed over a grouped message, which is pending, and an
\* ungrouped message, whose unit has already made its send.
C31_Witness ==
  \E u \in AlbumUnits, m, n \in 1..Len(msgs) :
    /\ units[u].pc = "upload"
    /\ seen[m] /\ msgs[m].gid # 0 /\ PendingPlaces(m) # {}
    /\ seen[n] /\ msgs[n].gid = 0
    /\ \E v \in SingleUnits : units[v].msgs = <<n>> /\ units[v].pc = "done"

\* C32: from the invocation of flush_pending() on, no group that was pending
\* at the invocation has a scheduled timer, and every completion of such a
\* group is one started by flush_pending itself, never by a timer's task.
C32_TimersCancelledAtInvocation ==
  fp.n > 0 =>
    /\ \A k \in 1..Len(pending) :
         pending[k].messages[1] \in fp.atCall => pending[k].timer \notin timers
    /\ \A u \in AlbumUnits :
         units[u].msgs[1] \in fp.atCall => units[u].by = "flush"

\* the cut the rule "last newline at or before position limit, else last
\* space at or before position limit, else limit" gives for text t
BoundaryCut(t, limit) ==
  LET nl == RFind(t, "\n", limit + 1)
      sp == RFind(t, " ", limit + 1)
  IN IF nl >= 0 THEN nl ELSE IF sp >= 0 THEN sp ELSE limit

\* C33: every iteration of _split_text that finds the remaining text longer
\* than the limit appends the part of it before the last newline at or before
\* position limit; without such a newline, before the last space at or before
\* position limit; without either, its first limit characters.
C33_CutAtLastBoundary ==
  [][split.status = "loop" /\ Len(split.rest) > split.limit =>
       split'.chunks =
         Append(split.chunks, SubSeq(split.rest, 1, BoundaryCut(split.rest, split.limit)))]_vars

\* the same rule with the boundaries the code looks at: indices 1 to limit - 1
C33_HoldsInsideTheWindow ==
  [][/\ split.status = "loop" /\ Len(split.rest) > split.limit
     /\ split.rest[1] \notin Whitespace
     /\ split.rest[split.limit + 1] \notin Whitespace
     => split'.chunks =
          Append(split.chunks, SubSeq(split.rest, 1, BoundaryCut(split.rest, split.limit)))]_vars

\* send_media was given a caption longer than MAX_CAPTION for a media type
\* that takes a caption
LongCaption ==
  /\ sender.op = "send_media"
  /\ sender.media_type \in {"image", "video", "document"}
  /\ Len(sender.input) > MAX_CAPTION

\* C34: for a caption longer than MAX_CAPTION the caption attached to the
\* media is the first chunk of _split_text(caption, MAX_CAPTION), and when
\* send_media has returned the trailing texts are the remaining chunks of it.
C34_CaptionSplitIsSplitText ==
  LongCaption =>
    /\ sender.posts[1].body = Head(split_text(sender.input, MAX_CAPTION))
    /\ sender.status = "returned" =>
         TrailingTexts = Tail(split_text(sender.input, MAX_CAPTION))

\* the attached caption is the first chunk when the part of the caption the
\* cut is searched in holds no newline
C34_FirstChunkWithoutNewline ==
  LongCaption /\ RFind(sender.input, "\n", MAX_CAPTION) < 0 =>
    sender.posts[1].body = Head(split_text(sender.input, MAX_CAPTION))

\* the first step of a timer's task finds the key of its timer not pending
FlushAlbumUnknownKey ==
  /\ ready # <<>>
  /\ ready' = Tail(ready)
  /\ ~Has(pending, msgs[Head(ready)].gid)

\* C35: a call of flush_pending() that follows an earlier call with no
\* forward() in between starts no completion, so the unit flush_pending waits
\* for never makes a sink, filter or fetch call; and _flush_album for a key
\* that is not pending makes no call and changes nothing the router holds.
C35_SecondFlushIdle ==
  /\ [](fp.n >= 2 => fp.unit = 0)
  /\ [][FlushAlbumUnknownKey =>
          UNCHANGED <<msgs, pending, timers, fired, units, fp, sink>>]_vars

\* C35 when the earlier call of flush_pending() returned normally
C35_IdleAfterNormalReturn ==
  /\ [][fp.status = "returned" /\ fp'.n = fp.n + 1 =>
          /\ fp'.status = "returned"
          /\ UNCHANGED <<msgs, pending, timers, fired, units, sink>>]_vars
  /\ [][FlushAlbumUnknownKey =>
          UNCHANGED <<msgs, pending, timers, fired, units, fp, sink>>]_vars

\* the completions started by the task of a fired timer
TimerUnits == {u \in AlbumUnits : units[u].by = "timer"}

\* C36: the timer whose task completed a group is the timer scheduled when
\* the last message of that group was added, never a timer scheduled at an
\* earlier add or for an earlier group of the same key.
C36_CompletedByOwnLastTimer ==
  \A u \in TimerUnits : units[u].timer = units[u].msgs[Len(units[u].msgs)]

\* the weaker statement: the timer whose task completed a group was scheduled
\* by a message of that group, not by one of an earlier group of the key
C36_NoOrphanTimerCompletes ==
  \A u \in TimerUnits : units[u].timer \in Range(units[u].msgs)

\* the bodies of all payloads posted, in order: the caption, then the texts
PostedBodies == [k \in 1..Len(sender.posts) |-> sender.posts[k].body]

\* C37: the router hands the text of a unit whose media is sent to send_media
\* as the caption; when send_media has returned, the characters of that
\* caption have reached the sink in the media payload or in the texts that
\* follow it, whatever the media type.
C37_TextReachesSink ==
  sender.op = "send_media" /\ sender.status = "returned" =>
    Letters(Concat(PostedBodies)) = Letters(sender.input)

\* C37 restricted to the media types that take a caption
C37_HoldsForCaptionedTypes ==
  sender.media_type \in {"image", "video", "document"} => C37_TextReachesSink

\* the sink calls of the terminal outcomes of a single message m processed by
\* unit u: a notification, a text send, an upload followed by a media send,
\* or no output
Outcomes38(u, m) ==
  { <<Call(u, "send_text", m, "skip")>>,
    <<Call(u, "send_text", m, "unsupported")>>,
    <<Call(u, "send_text", m, "text")>>,
    <<Call(u, "upload_media", m, ""), Call(u, "send_media", m, "caption")>>,
    <<>> }

IsPrefix(s, t) == Len(s) <= Len(t) /\ SubSeq(t, 1, Len(s)) = s

\* C38: the sink calls of a single message whose processing returned are
\* exactly one of the terminal outcomes: one notification (filter skip or
\* unsupported media), one text send, one upload_media followed by one
\* send_media, or none; at every moment, also when a sink call raised, they
\* are the beginning of one outcome, so no message gets a notification and a
\* payload, or a text send and a media send.
C38_OneTerminalOutcome ==
  \A u \in SingleUnits :
    LET m == units[u].msgs[1]
        cs == OpsOf(u, SinkOps)
    IN /\ \E o \in Outcomes38(u, m) : IsPrefix(cs, o)
       /\ units[u].pc = "done" => cs \in Outcomes38(u, m)

\* C38 witness: two single messages were processed to the end, one that got
\* the unsupported-media notification and one whose media was uploaded and
\* sent.
C38_Witness ==
  \E u, v \in SingleUnits :
    /\ units[u].pc = "done" /\ units[v].pc = "done"
    /\ OpsOf(u, SinkOps) = <<Call(u, "send_text", units[u].msgs[1], "unsupported")>>
    /\ Len(OpsOf(v, SinkOps)) = 2

\* message m has been removed from the pending set by a completion whose
\* processing is over
Processed(m) ==
  /\ m <= Len(msgs)
  /\ PendingPlaces(m) = {}
  /\ \E u \in AlbumUnits : m \in Range(units[u].msgs) /\ Ended(u)

\* C39: while the event loop keeps running, every message buffered in a
\* pending group is eventually removed from the pending set by a completion
\* and that completion's processing comes to its end; messages of its key
\* accepted in between only extend the group and do not keep it pending
\* forever once they stop.
C39_PendingEventuallyCompleted ==
  \A m \in 1..MaxLiveMsgs : (m <= Len(msgs) /\ PendingPlaces(m) # {}) ~> Processed(m)

\* C39 witness: a group that had grown to two messages was completed by the
\* task of its timer and processed to the end, with nothing left pending.
C39_Witness ==
  /\ pending = <<>>
  /\ \E u \in TimerUnits :
       /\ Len(units[u].msgs) = 2
       /\ units[u].timer = units[u].msgs[2]
       /\ Processed(units[u].msgs[1])

\* C40: in the order in which the sink receives them, the calls of one
\* completed album are contiguous: between two sink calls of an album the
\* sink receives no call of another unit.
C40_AlbumSinkCallsContiguous ==
  \A i, j, k \in 1..Len(sink) :
    /\ i < j /\ j < k
    /\ sink[i].unit = sink[k].unit
    /\ units[sink[i].unit].kind = "album"
    => sink[j].unit = sink[i].unit

\* what does hold: the sink receives the calls of each unit in the order in
\* which the unit made them
C40_UnitOrderKept ==
  \A u \in 1..Len(units) :
    SelectSeq(sink, LAMBDA c : c.unit = u) = SinkCalls(u, units[u].calls)
====
